---------------------------- MODULE Spec2Model ----------------------------
(***************************************************************************)
(* wluma: the per-output Predictor (predictor::Controller), its            *)
(* construction (learned-data load, initial-brightness handshake), the     *)
(* tick state machine (record user change / cooldown / learn / predict)    *)
(* and the learn() retention rule.                                         *)
(***************************************************************************)
EXTENDS Integers, Sequences, FiniteSets, TLC

VARIABLES
    phase,               \* position of the predictor thread: "load", "handshake", "running", or a fatal state
    stateful,            \* Controller.stateful
    file,                \* the learned-data file of the output
    user_rx,             \* values queued on the user brightness channel
    initial_brightness,  \* Controller.initial_brightness : Option<u64>
    kalman_initialized,  \* Kalman's initialized flag
    pending,             \* Controller.pending : Option<Entry>
    pending_cooldown,    \* Controller.pending_cooldown : u8
    entries,             \* Controller.data.entries : Vec<Entry>
    prediction_tx,       \* every value sent on prediction_tx, oldest first
    prediction_read,     \* how many of them the brightness controller has received
    quiet_ticks,         \* history: processed ticks without a user change since pending was last touched
    last,                \* history: what the most recent processed tick did
    exit_code,           \* exit code of the process, None while it runs
    webcam_rx,           \* values queued on the channel from the webcam sampler to the webcam Als
    webcam_kalman,       \* Webcam.kalman: the number of measurements it has processed
    als_lux,             \* webcam Als.lux, the cached last known value
    webcam_sent,         \* history: the value the webcam sampler sent last, None before the first
    webcam_last,         \* history: what the most recent webcam-side operation did
    thresholds,          \* the ascending profile thresholds smoothen() is called with
    smoothed,            \* history: the last smoothen() call, raw value and result
    als_rx,              \* per output: samples queued on the channel from the ALS sampler
    emitted,             \* history: every sample the ALS sampler has emitted, oldest first
    consumed             \* history, per output: every sample its ticks have taken, oldest first

\* the Predictor of one output, with its two channels and its file
predictorVars == <<phase, stateful, file, user_rx, initial_brightness, kalman_initialized,
                   pending, pending_cooldown, entries, prediction_tx, prediction_read,
                   quiet_ticks, last>>

\* the webcam sampler and the webcam Als
webcamVars == <<webcam_rx, webcam_kalman, als_lux, webcam_sent, webcam_last>>

\* smoothen()
smoothenVars == <<thresholds, smoothed>>

\* the ALS sampler and the per-output channels
fanoutVars == <<als_rx, emitted, consumed>>

alsVars == <<webcamVars, smoothenVars, fanoutVars>>

vars == <<predictorVars, exit_code, alsVars>>

----------------------------------------------------------------------------
\* Bounds of the model

MaxQueue == 2
MaxPredictions == 1
MaxEntries == 1
MaxScenarioPredictions == 8

\* Program constants

PENDING_COOLDOWN_RESET == 15

----------------------------------------------------------------------------
\* Option<T>

None == <<>>

Some(x) == <<x>>

Unwrap(o) == o[1]

UnwrapOr(o, d) == IF o = None THEN d ELSE o[1]

\* derived PartialOrd of Option<u8>: None < Some(_), Some(a) < Some(b) iff a < b
LumaLt(a, b) == IF a = None THEN b # None ELSE b # None /\ a[1] < b[1]

LumaGt(a, b) == LumaLt(b, a)

EntryNew(lux, luma, brightness) == [lux |-> lux, luma |-> luma, brightness |-> brightness]

LuxVals == {1, 2}

LumaVals == {None, Some(0)}

BrightVals == {1, 2}

Last(s) == s[Len(s)]

----------------------------------------------------------------------------
\* learn(): the retain closure

darker_env_darker_screen(entry, p) == entry.lux < p.lux /\ LumaLt(entry.luma, p.luma)

\* faulty variant: `<` for `<=` in the brightness comparison
darker_env_same_screen_strict(entry, p) ==
    entry.lux < p.lux /\ entry.luma = p.luma /\ entry.brightness < p.brightness

darker_env_same_screen(entry, p) ==
    entry.lux < p.lux /\ entry.luma = p.luma /\ entry.brightness <= p.brightness

darker_env_brighter_screen(entry, p) ==
    entry.lux < p.lux /\ LumaGt(entry.luma, p.luma) /\ entry.brightness <= p.brightness

\* faulty variant: the brightness of the stored entry is not looked at
same_env_darker_screen_any(entry, p) == entry.lux = p.lux /\ LumaLt(entry.luma, p.luma)

same_env_darker_screen(entry, p) ==
    entry.lux = p.lux /\ LumaLt(entry.luma, p.luma) /\ entry.brightness >= p.brightness

same_env_brighter_screen(entry, p) ==
    entry.lux = p.lux /\ LumaGt(entry.luma, p.luma) /\ entry.brightness <= p.brightness

brighter_env_darker_screen(entry, p) ==
    entry.lux > p.lux /\ LumaLt(entry.luma, p.luma) /\ entry.brightness >= p.brightness

brighter_env_same_screen(entry, p) ==
    entry.lux > p.lux /\ entry.luma = p.luma /\ entry.brightness >= p.brightness

\* faulty variant: the corner cell made to depend on the brightness like its neighbours
brighter_env_brighter_screen_monotone(entry, p) ==
    entry.lux > p.lux /\ LumaGt(entry.luma, p.luma) /\ entry.brightness >= p.brightness

brighter_env_brighter_screen(entry, p) == entry.lux > p.lux /\ LumaGt(entry.luma, p.luma)

\* faulty variant: "same env, same screen: only same", an entry equal to the
\* pending is kept
RetainOnlySame(entry, p) ==
    \/ darker_env_darker_screen(entry, p)
    \/ darker_env_same_screen(entry, p)
    \/ darker_env_brighter_screen(entry, p)
    \/ same_env_darker_screen(entry, p)
    \/ entry = p
    \/ same_env_brighter_screen(entry, p)
    \/ brighter_env_darker_screen(entry, p)
    \/ brighter_env_same_screen(entry, p)
    \/ brighter_env_brighter_screen(entry, p)

Retain(entry, p) ==
    \/ darker_env_darker_screen(entry, p)
    \/ darker_env_same_screen(entry, p)
    \/ darker_env_brighter_screen(entry, p)
    \/ same_env_darker_screen(entry, p)
    \/ same_env_brighter_screen(entry, p)
    \/ brighter_env_darker_screen(entry, p)
    \/ brighter_env_same_screen(entry, p)
    \/ brighter_env_brighter_screen(entry, p)

\* faulty variant: an entry with the pending's lux and luma is kept
LearnEntriesKeepSame(es, p) ==
    Append(SelectSeq(es, LAMBDA e : Retain(e, p) \/ (e.lux = p.lux /\ e.luma = p.luma)), p)

\* data.entries after retain(..) and push(pending)
LearnEntries(es, p) == Append(SelectSeq(es, LAMBDA e : Retain(e, p)), p)


----------------------------------------------------------------------------
\* Natural numbers of any size, for the 53-bit significands of f64 and their
\* products: little-endian sequences of limbs below Limb, no leading zero limb

LimbBits == 15

Limb == 2 ^ LimbBits

RECURSIVE Pow2(_)
Pow2(k) == IF k = 0 THEN 1 ELSE 2 * Pow2(k - 1)

RECURSIVE BitLen(_)
BitLen(n) == IF n = 0 THEN 0 ELSE 1 + BitLen(n \div 2)

LimbAt(a, i) == IF i <= Len(a) THEN a[i] ELSE 0

RECURSIVE BTrim(_)
BTrim(a) ==
    IF a = <<>> THEN a
    ELSE IF a[Len(a)] = 0 THEN BTrim(SubSeq(a, 1, Len(a) - 1))
    ELSE a

RECURSIVE BFromInt(_)
BFromInt(n) == IF n = 0 THEN <<>> ELSE <<n % Limb>> \o BFromInt(n \div Limb)

RECURSIVE BToInt(_)
BToInt(a) == IF a = <<>> THEN 0 ELSE a[1] + Limb * BToInt(Tail(a))

RECURSIVE BAddFrom(_, _, _, _)
BAddFrom(a, b, i, carry) ==
    IF i > Len(a) /\ i > Len(b)
    THEN (IF carry = 0 THEN <<>> ELSE <<carry>>)
    ELSE LET s == LimbAt(a, i) + LimbAt(b, i) + carry
         IN  <<s % Limb>> \o BAddFrom(a, b, i + 1, s \div Limb)

BAdd(a, b) == BAddFrom(a, b, 1, 0)

RECURSIVE BSubFrom(_, _, _, _)
BSubFrom(a, b, i, borrow) ==
    IF i > Len(a) THEN <<>>
    ELSE LET s == a[i] - LimbAt(b, i) - borrow
         IN  <<IF s < 0 THEN s + Limb ELSE s>>
                 \o BSubFrom(a, b, i + 1, IF s < 0 THEN 1 ELSE 0)

\* a - b, for a >= b
BSub(a, b) == BTrim(BSubFrom(a, b, 1, 0))

RECURSIVE BCmpFrom(_, _, _)
BCmpFrom(a, b, i) ==
    IF i = 0 THEN 0
    ELSE IF a[i] # b[i] THEN (IF a[i] < b[i] THEN -1 ELSE 1)
    ELSE BCmpFrom(a, b, i - 1)

\* -1, 0, 1 as a < b, a = b, a > b
BCmp(a, b) ==
    IF Len(a) # Len(b) THEN (IF Len(a) < Len(b) THEN -1 ELSE 1)
    ELSE BCmpFrom(a, b, Len(a))

RECURSIVE BMulSmallFrom(_, _, _, _)
BMulSmallFrom(a, k, i, carry) ==
    IF i > Len(a)
    THEN (IF carry = 0 THEN <<>> ELSE <<carry>>)
    ELSE LET s == a[i] * k + carry
         IN  <<s % Limb>> \o BMulSmallFrom(a, k, i + 1, s \div Limb)

\* a * k + c, for k and c below Limb
BMulSmall(a, k, c) == BTrim(BMulSmallFrom(a, k, 1, c))

BShlLimbs(a, n) == IF a = <<>> THEN a ELSE [i \in 1..n |-> 0] \o a

\* a * 2^k
BShl(a, k) == BShlLimbs(BMulSmall(a, Pow2(k % LimbBits), 0), k \div LimbBits)

RECURSIVE BDivSmallFrom(_, _, _, _)
BDivSmallFrom(a, k, i, r) ==
    IF i = 0 THEN <<>>
    ELSE LET t == r * Limb + a[i]
         IN  BDivSmallFrom(a, k, i - 1, t % k) \o <<t \div k>>

\* a \div 2^k
BShr(a, k) ==
    LET n == k \div LimbBits
        high == IF n >= Len(a) THEN <<>> ELSE SubSeq(a, n + 1, Len(a))
    IN  BTrim(BDivSmallFrom(high, Pow2(k % LimbBits), Len(high), 0))

BBitLen(a) == IF a = <<>> THEN 0 ELSE LimbBits * (Len(a) - 1) + BitLen(a[Len(a)])

BBit(a, i) == (LimbAt(a, i \div LimbBits + 1) \div Pow2(i % LimbBits)) % 2

BOdd(a) == a # <<>> /\ a[1] % 2 = 1

RECURSIVE BMulFrom(_, _, _)
BMulFrom(a, b, i) ==
    IF i > Len(b) THEN <<>>
    ELSE BAdd(BShlLimbs(BMulSmall(a, b[i], 0), i - 1), BMulFrom(a, b, i + 1))

BMul(a, b) == BMulFrom(a, b, 1)

----------------------------------------------------------------------------
\* f64 (IEEE 754 binary64, round to nearest even): NaN, or m * 2^e with m = 0
\* or 2^52 <= m < 2^53. Negative values, infinities and subnormals do not
\* arise in predict() for the magnitudes modelled.

MANTISSA_DIGITS == 53

F(m, e) == [nan |-> FALSE, m |-> m, e |-> e]

NaN == [nan |-> TRUE, m |-> <<>>, e |-> 0]

Zero == F(<<>>, 0)

\* m * 2^e (plus less than one unit of m when sticky) rounded to nearest even
Round(m, e, sticky) ==
    IF m = <<>> THEN Zero
    ELSE LET shift == BBitLen(m) - MANTISSA_DIGITS
         IN  IF shift <= 0 THEN F(BShl(m, 0 - shift), e + shift)
             ELSE LET q == BShr(m, shift)
                      rem == BSub(m, BShl(q, shift))
                      c == BCmp(rem, BShl(<<1>>, shift - 1))
                      up == c > 0 \/ (c = 0 /\ (sticky \/ BOdd(q)))
                      q2 == IF up THEN BAdd(q, <<1>>) ELSE q
                  IN  IF BBitLen(q2) > MANTISSA_DIGITS
                      THEN F(BShr(q2, 1), e + shift + 1)
                      ELSE F(q2, e + shift)

\* `n as f64`
FromInt(n) == Round(BFromInt(n), 0, FALSE)

One == FromInt(1)

FAdd(x, y) ==
    IF x.nan \/ y.nan THEN NaN
    ELSE IF x.m = <<>> THEN y
    ELSE IF y.m = <<>> THEN x
    ELSE LET e == IF x.e < y.e THEN x.e ELSE y.e
         IN  Round(BAdd(BShl(x.m, x.e - e), BShl(y.m, y.e - e)), e, FALSE)

FMul(x, y) ==
    IF x.nan \/ y.nan THEN NaN
    ELSE IF x.m = <<>> \/ y.m = <<>> THEN Zero
    ELSE IF y = One THEN x
    ELSE IF x = One THEN y
    ELSE Round(BMul(x.m, y.m), x.e + y.e, FALSE)

\* one step of long division: the next quotient bit of r / d, and the
\* remainder doubled
DivStep(st, d) ==
    LET ge == BCmp(st.r, d) >= 0
    IN  [q |-> BMulSmall(st.q, 2, IF ge THEN 1 ELSE 0),
         r |-> BMulSmall(IF ge THEN BSub(st.r, d) ELSE st.r, 2, 0)]

\* n steps; once the remainder is 0 the bits left are all 0
RECURSIVE DivSteps(_, _, _)
DivSteps(st, d, n) ==
    IF n = 0 THEN st
    ELSE IF st.r = <<>> THEN [q |-> BShl(st.q, n), r |-> <<>>]
    ELSE IF n = 1 THEN DivStep(st, d)
    ELSE DivSteps(DivSteps(st, d, n \div 2), d, n - n \div 2)

\* 0.0 / 0.0 is NaN; a positive value is never divided by 0.0 in predict()
FDiv(x, y) ==
    CASE x.nan \/ y.nan -> NaN
      [] x.m = <<>> /\ y.m = <<>> -> NaN
      [] x.m = <<>> /\ y.m # <<>> -> Zero
      [] x.m # <<>> /\ y.m # <<>> ->
            IF y = One THEN x
            ELSE LET d == DivSteps([q |-> <<>>, r |-> x.m], y.m, MANTISSA_DIGITS + 3)
                 IN  Round(d.q, x.e - y.e - (MANTISSA_DIGITS + 2), d.r # <<>>)

\* one step of the digit-by-digit square root of m: bit pair j of m is
\* brought down (a zero pair below the last one), the next bit of the root set
SqrtStep(st, m) ==
    LET two == IF st.j >= 0 THEN 2 * BBit(m, 2 * st.j + 1) + BBit(m, 2 * st.j) ELSE 0
        r1 == BMulSmall(st.r, 4, two)
        t == BMulSmall(st.q, 4, 1)
        ge == BCmp(r1, t) >= 0
    IN  [q |-> BMulSmall(st.q, 2, IF ge THEN 1 ELSE 0),
         r |-> IF ge THEN BSub(r1, t) ELSE r1,
         j |-> st.j - 1]

\* n steps; once the remainder is 0 and only zero pairs are left, the bits
\* left are all 0
RECURSIVE SqrtSteps(_, _, _)
SqrtSteps(st, m, n) ==
    IF n = 0 THEN st
    ELSE IF st.j < 0 /\ st.r = <<>> THEN [q |-> BShl(st.q, n), r |-> <<>>, j |-> st.j - n]
    ELSE IF n = 1 THEN SqrtStep(st, m)
    ELSE SqrtSteps(SqrtSteps(st, m, n \div 2), m, n - n \div 2)

FSqrt(x) ==
    IF x.nan THEN NaN
    ELSE IF x.m = <<>> THEN Zero
    ELSE LET odd == x.e % 2 = 1
             m == IF odd THEN BMulSmall(x.m, 2, 0) ELSE x.m
             e == IF odd THEN x.e - 1 ELSE x.e
             half == (MANTISSA_DIGITS + 1) \div 2
             s == SqrtSteps([q |-> <<>>, r |-> <<>>, j |-> half - 1], m, 2 * half)
         IN  Round(s.q, (e \div 2) - half, s.r # <<>>)

\* `x as u64`: NaN becomes 0, the fraction is dropped
AsU64(x) ==
    IF x.nan THEN 0
    ELSE IF x.e >= 0 THEN BToInt(BShl(x.m, x.e))
    ELSE BToInt(BShr(x.m, 0 - x.e))

----------------------------------------------------------------------------
\* predict(): inverse-distance weighting in f64

\* lines 154-156: the distance of one entry to the query; the u64 and u8
\* operands, their differences, the squares and the sum of squares are whole
\* numbers below 2^53 and so exact in f64
Distance(entry, lux, luma) ==
    LET p1 == lux - entry.lux
        p2 == UnwrapOr(luma, 0) - UnwrapOr(entry.luma, 0)
    IN  FSqrt(FromInt(p1 * p1 + p2 * p2))

\* lines 149-159: the distances of all entries, in entries order
RECURSIVE Distances(_, _, _)
Distances(es, lux, luma) ==
    IF es = <<>> THEN <<>>
    ELSE <<Distance(Head(es), lux, luma)>> \o Distances(Tail(es), lux, luma)

\* faulty variant: the product takes in the distance of entry i itself
RECURSIVE ProductAll(_, _, _, _)
ProductAll(ds, i, k, acc) ==
    IF k > Len(ds) THEN acc
    ELSE ProductAll(ds, i, k + 1, FMul(acc, ds[k]))

\* lines 165-169: `.product()` of the distances of all entries but entry i,
\* multiplied in entries order onto 1.0
RECURSIVE ProductExcept(_, _, _, _)
ProductExcept(ds, i, k, acc) ==
    IF k > Len(ds) THEN acc
    ELSE ProductExcept(ds, i, k + 1, IF k = i THEN acc ELSE FMul(acc, ds[k]))

RECURSIVE OtherDistances(_, _)
OtherDistances(ds, i) ==
    IF i > Len(ds) THEN <<>>
    ELSE <<ProductExcept(ds, i, 1, One)>> \o OtherDistances(ds, i + 1)

\* lines 174-179: `.sum()` over combinations(len - 1) of the distances; the
\* combination without entry i is other_distances[i], and they come in
\* lexicographic order: without the last entry first, without the first last
RECURSIVE DistanceDenominator(_, _, _)
DistanceDenominator(other_distances, i, acc) ==
    IF i = 0 THEN acc
    ELSE DistanceDenominator(other_distances, i - 1, FAdd(acc, other_distances[i]))

\* lines 181-184: `.sum()` of brightness * other_distances / distance_denominator
RECURSIVE WeightedSum(_, _, _, _, _)
WeightedSum(es, other_distances, distance_denominator, i, acc) ==
    IF i > Len(es) THEN acc
    ELSE WeightedSum(es, other_distances, distance_denominator, i + 1,
                     FAdd(acc, FDiv(FMul(FromInt(es[i].brightness), other_distances[i]),
                                    distance_denominator)))

\* lines 149-184: the f64 `prediction`, for non-empty entries
WeightedMean(es, lux, luma) ==
    LET other_distances == OtherDistances(Distances(es, lux, luma), 1)
        distance_denominator == DistanceDenominator(other_distances, Len(es), Zero)
    IN  WeightedSum(es, other_distances, distance_denominator, 1, Zero)

\* some entry is at distance 0.0 of the query
ExactHit(es, lux, luma) ==
    \E i \in 1..Len(es) :
        es[i].lux = lux /\ UnwrapOr(es[i].luma, 0) = UnwrapOr(luma, 0)

\* faulty variant: weights 1/d, so that a zero distance makes the result NaN, cast to 0
PredictionInverse(es, lux, luma) ==
    IF ExactHit(es, lux, luma) THEN 0 ELSE AsU64(WeightedMean(es, lux, luma))

\* line 187: `prediction as u64`, the value predict() sends
Prediction(es, lux, luma) == AsU64(WeightedMean(es, lux, luma))

\* faulty variant: no early return, empty entries give an empty sum, 0
PredictEmptyZero(es, lux, luma) ==
    IF es = <<>> THEN Some(0) ELSE Some(Prediction(es, lux, luma))

\* what predict() sends: nothing for empty entries
Predict(es, lux, luma) == IF es = <<>> THEN None ELSE Some(Prediction(es, lux, luma))

----------------------------------------------------------------------------
\* Learned-data file (predictor::data)

Missing == [kind |-> "missing", entries |-> <<>>]

Corrupt == [kind |-> "corrupt", entries |-> <<>>]

Valid(es) == [kind |-> "valid", entries |-> es]

\* Data::load(): Ok(data) for a readable file, Err for a missing one; a
\* corrupt file is fatal
DataLoad(f) ==
    CASE f.kind = "valid" -> [result |-> "ok", entries |-> f.entries]
      [] f.kind = "missing" -> [result |-> "err", entries |-> <<>>]
      [] OTHER -> [result |-> "fatal", entries |-> <<>>]

\* Data::save(): the whole Data replaces the file
DataSave(es) == Valid(es)

\* Kalman::process(): the initialized flag after one measurement
KalmanProcessInitialized(before) == TRUE

----------------------------------------------------------------------------
\* Controller::new

\* faulty variant: `unwrap()` for `unwrap_or_default()`
NewDataUnwrap(st, f) ==
    IF st
    THEN (IF DataLoad(f).result = "err"
          THEN [result |-> "fatal", entries |-> <<>>]
          ELSE DataLoad(f))
    ELSE [result |-> "ok", entries |-> <<>>]

\* `Data::load().unwrap_or_default()` when stateful, else `Data::default()`
NewData(st, f) ==
    IF st
    THEN (IF DataLoad(f).result = "err"
          THEN [result |-> "ok", entries |-> <<>>]
          ELSE DataLoad(f))
    ELSE [result |-> "ok", entries |-> <<>>]

NoTick == [branch |-> "none", lux |-> 0, luma |-> None, drained |-> FALSE]

DEFAULT_LUX == 100

Outputs == {1, 2}

NoWebcamOp == [op |-> "none", value |-> 0]

\* the ALS side before any of its threads has done anything
AlsIdle ==
    /\ webcam_rx = <<>>
    /\ webcam_kalman = 0
    /\ als_lux = DEFAULT_LUX
    /\ webcam_sent = None
    /\ webcam_last = NoWebcamOp
    /\ smoothed = None
    /\ als_rx = [o \in Outputs |-> <<>>]
    /\ emitted = <<>>
    /\ consumed = [o \in Outputs |-> <<>>]

\* the ALS threads and their channels are gone
AlsReset ==
    /\ webcam_rx' = <<>>
    /\ webcam_kalman' = 0
    /\ als_lux' = DEFAULT_LUX
    /\ webcam_sent' = None
    /\ webcam_last' = NoWebcamOp
    /\ smoothed' = None
    /\ als_rx' = [o \in Outputs |-> <<>>]
    /\ emitted' = <<>>
    /\ consumed' = [o \in Outputs |-> <<>>]

\* the process runs: no thread has panicked
Alive == exit_code = None

\* faulty variant: no panic hook, the panic ends only its own thread
ExitThreadOnly(reason) ==
    /\ phase' = reason
    /\ UNCHANGED <<stateful, file, user_rx, initial_brightness, kalman_initialized,
                   pending, pending_cooldown, entries, prediction_tx, prediction_read,
                   quiet_ticks, last, exit_code, alsVars>>

\* main.rs lines 13-17: a panic in any thread ends the process with exit code 1;
\* every thread, Controller and channel is gone, the file stays
Exit(reason) ==
    /\ phase' = reason
    /\ exit_code' = Some(1)
    /\ AlsReset
    /\ UNCHANGED thresholds
    /\ user_rx' = <<>>
    /\ initial_brightness' = None
    /\ kalman_initialized' = FALSE
    /\ pending' = None
    /\ pending_cooldown' = 0
    /\ entries' = <<>>
    /\ prediction_tx' = <<>>
    /\ prediction_read' = 0
    /\ quiet_ticks' = 0
    /\ last' = NoTick
    /\ UNCHANGED <<stateful, file>>

\* lines 30-34: the data is loaded before the handshake is awaited
Load ==
    /\ phase = "load"
    /\ IF NewData(stateful, file).result = "ok"
       THEN /\ entries' = NewData(stateful, file).entries
            /\ phase' = "handshake"
            /\ UNCHANGED <<stateful, file, user_rx, initial_brightness,
                           kalman_initialized, pending, pending_cooldown, prediction_tx,
                           prediction_read, quiet_ticks, last, exit_code, alsVars>>
       ELSE Exit("fatal_corrupt_data")

\* faulty variant: `unwrap_or(0)` for `expect(..)`
InitialBrightnessOrDefault(rx) == IF rx = <<>> THEN Some(0) ELSE Some(Head(rx))

\* lines 37-39: `recv_timeout(..).expect(..)`; None stands for the panic
InitialBrightness(rx) == IF rx = <<>> THEN None ELSE Some(Head(rx))

\* lines 37-60: the rest of Controller::new, once recv_timeout has returned
Handshake ==
    LET received == InitialBrightness(user_rx)
    IN  IF received = None
        THEN Exit("fatal_handshake_timeout")
        ELSE /\ phase' = "running"
             /\ user_rx' = IF user_rx = <<>> THEN <<>> ELSE Tail(user_rx)
             /\ initial_brightness' = IF entries = <<>> THEN received ELSE None
             /\ kalman_initialized' = FALSE
             /\ pending_cooldown' = 0
             /\ pending' = None
             /\ UNCHANGED <<stateful, file, entries, prediction_tx, prediction_read,
                            quiet_ticks, last, exit_code, alsVars>>

\* the handshake value arrived within INITIAL_BRIGHTNESS_TIMEOUT_SECS
RecvInitialBrightness ==
    /\ phase = "handshake"
    /\ user_rx # <<>>
    /\ Handshake

\* nothing arrived within INITIAL_BRIGHTNESS_TIMEOUT_SECS
HandshakeTimeout ==
    /\ phase = "handshake"
    /\ user_rx = <<>>
    /\ Handshake

----------------------------------------------------------------------------
\* Controller::process

\* faulty variant: the handshake value wins over a queued user change
UserChangedBrightnessInitialFirst(rx, initial) ==
    IF initial # None THEN initial ELSE IF rx # <<>> THEN Some(Last(rx)) ELSE None

\* faulty variant: the handshake value is not used
UserChangedBrightnessNoInitial(rx, initial) == IF rx # <<>> THEN Some(Last(rx)) ELSE None

\* line 74: `user_rx.try_iter().last().or(initial_brightness)`
UserChangedBrightness(rx, initial) == IF rx # <<>> THEN Some(Last(rx)) ELSE initial

\* faulty variant: lux and luma follow the latest tick
RecordPendingUnfrozen(pend, lux, luma, brightness) == EntryNew(lux, luma, brightness)

\* lines 77-83: the pending entry a user change leaves behind
RecordPending(pend, lux, luma, brightness) ==
    IF pend = None
    THEN EntryNew(lux, luma, brightness)
    ELSE EntryNew(Unwrap(pend).lux, Unwrap(pend).luma, brightness)

\* faulty variant: the cooldown ends one tick early
BranchOffByOne(user_changed_brightness, cooldown, pend) ==
    IF user_changed_brightness # None THEN "record"
    ELSE IF cooldown > 1 THEN "cooldown"
    ELSE IF pend # None THEN "learn"
    ELSE "predict"

\* faulty variant: a tick during the cooldown predicts
BranchCooldownPredicts(user_changed_brightness, cooldown, pend) ==
    IF user_changed_brightness # None THEN "record"
    ELSE IF cooldown > 0 THEN "predict"
    ELSE IF pend # None THEN "learn"
    ELSE "predict"

\* faulty variant: learn() does not wait for the cooldown
BranchLearnFirst(user_changed_brightness, cooldown, pend) ==
    IF user_changed_brightness # None THEN "record"
    ELSE IF pend # None THEN "learn"
    ELSE IF cooldown > 0 THEN "cooldown"
    ELSE "predict"

\* faulty variant: the `else if self.pending.is_some()` arm is missing
BranchNeverLearns(user_changed_brightness, cooldown, pend) ==
    IF user_changed_brightness # None THEN "record"
    ELSE IF cooldown > 0 THEN "cooldown"
    ELSE "predict"

\* lines 76-92: which of the four branches a processed tick takes
Branch(user_changed_brightness, cooldown, pend) ==
    IF user_changed_brightness # None THEN "record"
    ELSE IF cooldown > 0 THEN "cooldown"
    ELSE IF pend # None THEN "learn"
    ELSE "predict"

\* history: the branch taken; for a recorded change and for a prediction also
\* the tick's lux and luma, and whether a value came off user_rx (else a
\* recorded change is the handshake value)
TickMark(branch, lux, luma, drained) ==
    IF branch \in {"record", "predict"}
    THEN [branch |-> branch, lux |-> lux, luma |-> luma, drained |-> drained]
    ELSE [branch |-> branch, lux |-> 0, luma |-> None, drained |-> FALSE]

\* faulty variant: learn() does not save
SavedFileNever(st, f, es) == f

\* lines 139-141: the file after learn(), `if self.stateful { self.data.save() }`
SavedFile(st, f, es) == IF st THEN DataSave(es) ELSE f

\* lines 95-142: learn()
Learn ==
    /\ pending # None
    /\ pending' = None
    /\ entries' = LearnEntries(entries, Unwrap(pending))
    /\ file' = SavedFile(stateful, file, entries')

\* lines 72-93
Process(lux, luma) ==
    LET user_changed_brightness == UserChangedBrightness(user_rx, initial_brightness)
        branch == Branch(user_changed_brightness, pending_cooldown, pending)
    IN  /\ initial_brightness' = None
        /\ user_rx' = <<>>
        /\ last' = TickMark(branch, lux, luma, user_rx # <<>>)
        /\ CASE branch = "record" ->
                  /\ pending' = Some(RecordPending(pending, lux, luma,
                                                   Unwrap(user_changed_brightness)))
                  /\ pending_cooldown' = PENDING_COOLDOWN_RESET
                  /\ quiet_ticks' = 0
                  /\ UNCHANGED <<entries, file, prediction_tx>>
             [] branch = "cooldown" ->
                  /\ pending_cooldown' = pending_cooldown - 1
                  /\ quiet_ticks' = quiet_ticks + 1
                  /\ UNCHANGED <<pending, entries, file, prediction_tx>>
             [] branch = "learn" ->
                  /\ Learn
                  /\ quiet_ticks' = 0
                  /\ UNCHANGED <<pending_cooldown, prediction_tx>>
             [] OTHER ->
                  /\ prediction_tx' = prediction_tx \o Predict(entries, lux, luma)
                  /\ UNCHANGED <<pending, pending_cooldown, entries, file, quiet_ticks>>

\* lines 62-70: adjust(), with lux the Kalman-smoothed ALS value
Adjust(lux, luma) ==
    /\ phase = "running"
    /\ kalman_initialized' = KalmanProcessInitialized(kalman_initialized)
    /\ IF kalman_initialized'
       THEN Process(lux, luma)
       ELSE UNCHANGED <<initial_brightness, user_rx, last, pending, pending_cooldown,
                        quiet_ticks, entries, file, prediction_tx>>
    /\ UNCHANGED <<phase, stateful, prediction_read, exit_code>>

\* line 65: `als.get().expect("Unable to get ALS value")`
AdjustAlsError ==
    /\ phase = "running"
    /\ Exit("fatal_als")

\* line 140: `self.data.save().expect("Unable to save data")` when the write
\* fails; the file is as it was
AdjustSaveError ==
    /\ phase = "running"
    /\ stateful
    /\ KalmanProcessInitialized(kalman_initialized)
    /\ Branch(UserChangedBrightness(user_rx, initial_brightness), pending_cooldown, pending)
         = "learn"
    /\ Exit("fatal_save")

\* main.rs lines 55-64: the brightness thread of the output fails to open its
\* device, `.expect("Unable to initialize output backlight")`, before its
\* controller has sent anything on user_tx
BrightnessInitError ==
    /\ phase \in {"load", "handshake"}
    /\ user_rx = <<>>
    /\ Exit("fatal_brightness_init")

\* a thread of the process has panicked
Panicked == phase \notin {"load", "handshake", "running"}

\* a tick now would send a prediction
WouldSend ==
    /\ Branch(UserChangedBrightness(user_rx, initial_brightness), pending_cooldown, pending)
         = "predict"
    /\ entries # <<>>

----------------------------------------------------------------------------
\* The brightness controller, the peer on the two channels

\* user_tx.send(b): the brightness at startup, later every change made by the user
UserSend(b) ==
    /\ Alive
    /\ Len(user_rx) < MaxQueue
    /\ Len(entries) < MaxEntries
    /\ user_rx' = Append(user_rx, b)
    /\ UNCHANGED <<phase, stateful, file, initial_brightness, kalman_initialized,
                   pending, pending_cooldown, entries, prediction_tx, prediction_read,
                   quiet_ticks, last, exit_code, alsVars>>

\* prediction_rx receives the next prediction
PredictionRecv ==
    /\ Alive
    /\ prediction_read < Len(prediction_tx)
    /\ prediction_read' = prediction_read + 1
    /\ UNCHANGED <<phase, stateful, file, user_rx, initial_brightness, kalman_initialized,
                   pending, pending_cooldown, entries, prediction_tx, quiet_ticks, last,
                   exit_code, alsVars>>

----------------------------------------------------------------------------
\* The predictor of one output, from thread start

SeedFiles == {Missing, Corrupt, Valid(<<EntryNew(1, Some(0), 1)>>)}

FreshPredictor ==
    /\ phase = "load"
    /\ user_rx = <<>>
    /\ initial_brightness = None
    /\ kalman_initialized = FALSE
    /\ pending = None
    /\ pending_cooldown = 0
    /\ entries = <<>>
    /\ prediction_tx = <<>>
    /\ prediction_read = 0
    /\ quiet_ticks = 0
    /\ last = NoTick
    /\ exit_code = None

Fresh ==
    /\ FreshPredictor
    /\ thresholds = <<>>
    /\ AlsIdle

\* a Controller that is not stateful is started beside a file that a stateful
\* run has left
Init ==
    /\ Fresh
    /\ stateful \in BOOLEAN
    /\ file \in SeedFiles
    /\ ~stateful => file.kind = "valid"

Tick ==
    \E lux \in LuxVals, luma \in LumaVals :
        /\ WouldSend => Len(prediction_tx) < MaxPredictions
        /\ Adjust(lux, luma)
        /\ UNCHANGED alsVars

User == \E b \in BrightVals : UserSend(b)

Next ==
    \/ Load
    \/ RecvInitialBrightness
    \/ HandshakeTimeout
    \/ Tick
    \/ AdjustAlsError
    \/ AdjustSaveError
    \/ User
    \/ PredictionRecv

Spec == Init /\ [][Next]_vars

----------------------------------------------------------------------------
\* learn() on pre-seeded data, as test_learn_data_cleanup drives it: entries on
\* the grid around (10, Some(20), 30), luma also absent, in iproduct order

Grid ==
    [k \in 1..36 |->
        LET i == (k - 1) \div 12
            j == ((k - 1) \div 3) % 4
            b == (k - 1) % 3
        IN  EntryNew(9 + i, IF j = 0 THEN None ELSE Some(18 + j), 29 + b)]

Cube == SelectSeq(Grid, LAMBDA e : e.luma # None)

Range(sq) == {sq[i] : i \in 1..Len(sq)}

SubGrid(LX, LM, BR) ==
    SelectSeq(Grid, LAMBDA e : e.lux \in LX /\ e.luma \in LM /\ e.brightness \in BR)

LearnInit ==
    /\ phase = "running"
    /\ stateful = TRUE
    /\ entries \in {SubGrid(LX, LM, BR) : LX \in SUBSET {9, 10, 11},
                                          LM \in SUBSET {None, Some(19), Some(20), Some(21)},
                                          BR \in SUBSET {29, 30, 31}}
    /\ file = Valid(entries)
    /\ pending \in {Some(e) : e \in Range(Grid)}
    /\ pending_cooldown = 0
    /\ quiet_ticks = PENDING_COOLDOWN_RESET
    /\ last = TickMark("cooldown", 0, None, FALSE)
    /\ user_rx = <<>>
    /\ initial_brightness = None
    /\ kalman_initialized = TRUE
    /\ prediction_tx = <<>>
    /\ prediction_read = 0
    /\ exit_code = None
    /\ thresholds = <<>>
    /\ AlsIdle

\* the tick after the cooldown has run out
LearnTick ==
    /\ pending # None
    /\ \E lux \in {10}, luma \in {Some(20)} : Adjust(lux, luma)
    /\ UNCHANGED alsVars

LearnNext == LearnTick

LearnSpec == LearnInit /\ [][LearnNext]_vars

----------------------------------------------------------------------------
\* Cold start (scenario A): no learned data, the brightness controller sends
\* the device brightness 50 at startup, every tick carries lux 100, luma 30

ScenarioAInit ==
    /\ Fresh
    /\ stateful \in BOOLEAN
    /\ file = Missing

ScenarioAStartup ==
    /\ phase \in {"load", "handshake"}
    /\ user_rx = <<>>
    /\ UserSend(50)

ScenarioATick ==
    /\ WouldSend => Len(prediction_tx) < MaxScenarioPredictions
    /\ Adjust(100, Some(30))
    /\ UNCHANGED alsVars

ScenarioANext ==
    \/ Load
    \/ ScenarioAStartup
    \/ RecvInitialBrightness
    \/ HandshakeTimeout
    \/ ScenarioATick
    \/ PredictionRecv

ScenarioASpec == ScenarioAInit /\ [][ScenarioANext]_vars

----------------------------------------------------------------------------
\* predict() on learned data, as the test_predict_* tests drive it: one tick
\* with nothing pending on data that learn() built, or on no data at all

MaxLearned == 3

\* pendings learned in this order: three of the same brightness along the lux
\* axis, two that differ only in luma being absent or Some(0), and the three
\* entries of test_predict_approximate
PredictPendings ==
    <<EntryNew(0, None, 1), EntryNew(1, None, 1), EntryNew(3, None, 1),
      EntryNew(5, None, 20), EntryNew(5, Some(0), 10),
      EntryNew(5, Some(10), 15), EntryNew(10, Some(20), 30), EntryNew(100, Some(100), 100)>>

PredictQueries ==
    {<<6, None>>, <<5, Some(0)>>, <<5, Some(10)>>, <<10, Some(20)>>, <<50, Some(50)>>}

\* data.entries after learn() has run on each of ps in turn
RECURSIVE Learned(_)
Learned(ps) ==
    IF ps = <<>> THEN <<>>
    ELSE LearnEntries(Learned(SubSeq(ps, 1, Len(ps) - 1)), Last(ps))

PredictInit ==
    /\ phase = "running"
    /\ stateful = FALSE
    /\ file = Missing
    /\ entries \in {Learned(SelectSeq(PredictPendings, LAMBDA e : e \in S)) :
                       S \in {T \in SUBSET Range(PredictPendings) : Cardinality(T) <= MaxLearned}}
    /\ pending = None
    /\ pending_cooldown = 0
    /\ quiet_ticks = 0
    /\ last = NoTick
    /\ user_rx = <<>>
    /\ initial_brightness = None
    /\ kalman_initialized = TRUE
    /\ prediction_tx = <<>>
    /\ prediction_read = 0
    /\ exit_code = None
    /\ thresholds = <<>>
    /\ AlsIdle

\* the one tick
PredictTick ==
    /\ last = NoTick
    /\ \E q \in PredictQueries : Adjust(q[1], q[2])
    /\ UNCHANGED alsVars

PredictNext == PredictTick

PredictSpec == PredictInit /\ [][PredictNext]_vars

----------------------------------------------------------------------------
\* The webcam as ALS (als::webcam): the sampler thread and the Als that caches
\* what it sends

MaxWebcamQueue == 3

MaxMeasurements == 4

WebcamLuxVals == {42, 43, 44}

\* the outcome of self.frame(): Err, or Ok with the lux that the frame's
\* lightness comes to after kalman.process()
FrameErr == [ok |-> FALSE, lux |-> 0]

FrameOk(lux) == [ok |-> TRUE, lux |-> lux]

\* faulty variant: a failed frame counts as the default lux
FrameLuxOrDefault(frame) == IF frame.ok THEN Some(frame.lux) ELSE Some(DEFAULT_LUX)

\* webcam.rs lines 68-70: `if let Ok(..) = self.frame()`, the lux to send
FrameLux(frame) == IF frame.ok THEN Some(frame.lux) ELSE None

\* webcam.rs lines 67-78: Webcam::step(), sleep included
WebcamStep(frame) ==
    /\ Alive
    /\ LET lux == FrameLux(frame)
       IN  IF lux = None
           THEN /\ webcam_last' = [op |-> "frame_error", value |-> 0]
                /\ UNCHANGED <<webcam_rx, webcam_kalman, webcam_sent>>
           ELSE /\ webcam_kalman < MaxMeasurements
                /\ Len(webcam_rx) < MaxWebcamQueue
                /\ webcam_kalman' = webcam_kalman + 1
                /\ webcam_rx' = Append(webcam_rx, Unwrap(lux))
                /\ webcam_sent' = lux
                /\ webcam_last' = [op |-> "send", value |-> Unwrap(lux)]
    /\ UNCHANGED <<als_lux, predictorVars, exit_code, smoothenVars, fanoutVars>>

\* webcam.rs line 50: `Self::setup(video).expect(..)` in Webcam::new, before
\* the first step
WebcamSetupError ==
    /\ Alive
    /\ webcam_last = NoWebcamOp
    /\ Exit("fatal_webcam_setup")

\* faulty variant: the oldest queued value is taken
GetRawValueFirst(rx, lux) == IF rx # <<>> THEN Head(rx) ELSE lux

\* webcam.rs lines 104-108: `webcam_rx.try_iter().last().unwrap_or(*self.lux.borrow())`
GetRawValue(rx, lux) == IF rx # <<>> THEN Last(rx) ELSE lux

\* webcam.rs lines 103-111: Als::get_raw()
GetRaw ==
    /\ Alive
    /\ webcam_rx' = <<>>
    /\ als_lux' = GetRawValue(webcam_rx, als_lux)
    /\ webcam_last' = [op |-> "get", value |-> als_lux']
    /\ UNCHANGED <<webcam_kalman, webcam_sent, predictorVars, exit_code, smoothenVars,
                   fanoutVars>>

WebcamInit ==
    /\ Fresh
    /\ stateful = FALSE
    /\ file = Missing

WebcamNext ==
    \/ \E frame \in {FrameErr} \cup {FrameOk(lux) : lux \in WebcamLuxVals} : WebcamStep(frame)
    \/ WebcamSetupError
    \/ GetRaw

WebcamSpec == WebcamInit /\ [][WebcamNext]_vars

----------------------------------------------------------------------------
\* smoothen() (als/mod.rs), on ascending threshold lists as test_smoothen has them

MaxThresholds == 3

ThresholdVals == {100, 200, 300}

RawVals == {23, 100, 123, 200, 223, 300, 323}

\* faulty variant: `<=` for `<`
RECURSIVE smoothen_le(_, _, _)
smoothen_le(raw_lux, ts, i) ==
    IF i > Len(ts) THEN Len(ts)
    ELSE IF raw_lux <= ts[i] THEN i - 1
    ELSE smoothen_le(raw_lux, ts, i + 1)

\* mod.rs lines 16-21: the 0-based index of the first threshold from position i
\* on that raw_lux is below, else the length
RECURSIVE smoothen_from(_, _, _)
smoothen_from(raw_lux, ts, i) ==
    IF i > Len(ts) THEN Len(ts)
    ELSE IF raw_lux < ts[i] THEN i - 1
    ELSE smoothen_from(raw_lux, ts, i + 1)

\* mod.rs lines 15-22
smoothen(raw_lux, ts) == smoothen_from(raw_lux, ts, 1)

Ascending(ts) == \A i \in 1..(Len(ts) - 1) : ts[i] <= ts[i + 1]

SmoothenInit ==
    /\ FreshPredictor
    /\ stateful = FALSE
    /\ file = Missing
    /\ AlsIdle
    /\ thresholds \in {ts \in UNION {[1..n -> ThresholdVals] : n \in 0..MaxThresholds} :
                            Ascending(ts)}

\* one call of smoothen() with the configured thresholds
SmoothenCall ==
    /\ Alive
    /\ \E raw_lux \in RawVals :
          smoothed' = Some([raw |-> raw_lux, profile |-> smoothen(raw_lux, thresholds)])
    /\ UNCHANGED <<predictorVars, exit_code, webcamVars, thresholds, fanoutVars>>

SmoothenNext == SmoothenCall

SmoothenSpec == SmoothenInit /\ [][SmoothenNext]_vars

----------------------------------------------------------------------------
\* The ambient samples: one sampler thread, one channel per output (main.rs
\* lines 31-41 and 145), each predictor taking one sample per adjust()

MaxSamples == 3

AlsVals == {10, 20}

\* samples sent to output o so far
Received(o) == Len(consumed[o]) + Len(als_rx[o])

\* the sampler reads its source once per round of its loop
AlsGet(v) ==
    /\ Alive
    /\ Len(emitted) < MaxSamples
    /\ \A o \in Outputs : Received(o) = Len(emitted)
    /\ emitted' = Append(emitted, v)
    /\ UNCHANGED <<predictorVars, exit_code, webcamVars, smoothenVars, als_rx, consumed>>

\* ... and sends the value on every channel of als_txs, in the order of the
\* outputs
AlsSend(o) ==
    /\ Alive
    /\ Received(o) < Len(emitted)
    /\ \A p \in Outputs : p < o => Received(p) = Len(emitted)
    /\ als_rx' = [als_rx EXCEPT ![o] = Append(@, Last(emitted))]
    /\ UNCHANGED <<predictorVars, exit_code, webcamVars, smoothenVars, emitted, consumed>>

\* faulty variant: the newest queued sample is taken
AlsValueLast(rx) == Last(rx)

\* controller.rs line 66: the one `self.als.get()` of a tick, on the channel of
\* the output: the oldest queued sample
AlsValue(rx) == Head(rx)

\* the predictor of output o takes its sample
AlsConsume(o) ==
    /\ als_rx[o] # <<>>
    /\ consumed' = [consumed EXCEPT ![o] = Append(@, AlsValue(als_rx[o]))]
    /\ als_rx' = [als_rx EXCEPT ![o] = Tail(@)]
    /\ UNCHANGED <<webcamVars, smoothenVars, emitted>>

\* adjust() of the predictor of the first output; lux is what the Kalman filter
\* makes of the sample
FanOutTick ==
    \E lux \in LuxVals, luma \in LumaVals :
        /\ WouldSend => Len(prediction_tx) < MaxPredictions
        /\ Adjust(lux, luma)
        /\ AlsConsume(1)

\* adjust() of the predictor of another output, of which only the channel is
\* followed
OtherTick(o) ==
    /\ Alive
    /\ o # 1
    /\ AlsConsume(o)
    /\ UNCHANGED <<predictorVars, exit_code>>

\* a predictor without data that has just received its handshake value
FanOutInit ==
    /\ phase = "running"
    /\ stateful = FALSE
    /\ file = Missing
    /\ entries = <<>>
    /\ pending = None
    /\ pending_cooldown = 0
    /\ quiet_ticks = 0
    /\ last = NoTick
    /\ user_rx = <<>>
    /\ initial_brightness \in {Some(b) : b \in BrightVals}
    /\ kalman_initialized = FALSE
    /\ prediction_tx = <<>>
    /\ prediction_read = 0
    /\ exit_code = None
    /\ thresholds = <<>>
    /\ AlsIdle

FanOutNext ==
    \/ \E v \in AlsVals : AlsGet(v)
    \/ \E o \in Outputs : AlsSend(o)
    \/ FanOutTick
    \/ \E o \in Outputs : OtherTick(o)
    \/ User

FanOutSpec == FanOutInit /\ [][FanOutNext]_vars

----------------------------------------------------------------------------
\* The predictor together with the threads that can fail beside it: the
\* brightness thread of its output and the webcam sampler

ProcessNext ==
    \/ Next
    \/ BrightnessInitError
    \/ WebcamSetupError

ProcessSpec == Init /\ [][ProcessNext]_vars

----------------------------------------------------------------------------
\* A predictor that starts without learned data and keeps learning: every
\* entry it holds has come out of learn()

MaxRelearnEntries == 2

\* user_tx.send(b) after the handshake, one change at a time
UserChange(b) ==
    /\ Alive
    /\ phase = "running"
    /\ user_rx = <<>>
    /\ Len(entries) < MaxRelearnEntries
    /\ user_rx' = Append(user_rx, b)
    /\ UNCHANGED <<phase, stateful, file, initial_brightness, kalman_initialized,
                   pending, pending_cooldown, entries, prediction_tx, prediction_read,
                   quiet_ticks, last, exit_code, alsVars>>

\* Controller::new has returned: no file, no entries, the handshake value kept
RelearnInit ==
    /\ phase = "running"
    /\ stateful = TRUE
    /\ file = Missing
    /\ entries = <<>>
    /\ pending = None
    /\ pending_cooldown = 0
    /\ quiet_ticks = 0
    /\ last = NoTick
    /\ user_rx = <<>>
    /\ initial_brightness \in {Some(b) : b \in BrightVals}
    /\ kalman_initialized = FALSE
    /\ prediction_tx = <<>>
    /\ prediction_read = 0
    /\ exit_code = None
    /\ thresholds = <<>>
    /\ AlsIdle

RelearnNext ==
    \/ Tick
    \/ \E b \in BrightVals : UserChange(b)

RelearnSpec == RelearnInit /\ [][RelearnNext]_vars

\* a tick that does not get to send a prediction
QuietTick == ~WouldSend /\ Tick

SeedEntries == <<EntryNew(1, Some(0), 1)>>

\* Controller::new has returned with the entries of a file a run before has
\* left: the handshake value is dropped, every entry learned from here on
\* comes from a user change
RelearnLiveInit ==
    /\ phase = "running"
    /\ stateful = TRUE
    /\ file = Valid(SeedEntries)
    /\ entries = SeedEntries
    /\ pending = None
    /\ pending_cooldown = 0
    /\ quiet_ticks = 0
    /\ last = NoTick
    /\ user_rx = <<>>
    /\ initial_brightness = None
    /\ kalman_initialized = FALSE
    /\ prediction_tx = <<>>
    /\ prediction_read = 0
    /\ exit_code = None
    /\ thresholds = <<>>
    /\ AlsIdle

\* a user change while learn() has not changed the entries yet
LiveUserChange(b) ==
    /\ entries = SeedEntries
    /\ UserChange(b)

RelearnLiveNext ==
    \/ Tick
    \/ \E b \in BrightVals : LiveUserChange(b)

\* the same with the capturer calling adjust() again and again for as long as
\* the predictor thread lives: a tick that has a user change, a cooldown or a
\* pending entry to deal with is not put off for ever
RelearnLiveSpec == RelearnLiveInit /\ [][RelearnLiveNext]_vars /\ WF_vars(QuietTick)

----------------------------------------------------------------------------
\* Properties

\* a processed tick carrying (lux, luma): adjust() ran process()
Processed(lux, luma) == Adjust(lux, luma) /\ kalman_initialized'

\* C1 (pending freeze): a processed tick that drains a user change creates
\* pending = Entry(lux, luma, last drained value) when there is none, and
\* otherwise keeps pending.lux and pending.luma, whatever lux and luma the
\* tick carries, and sets pending.brightness to the last drained value.
C1_PendingFreeze ==
    [][\A lux \in LuxVals, luma \in LumaVals :
          (Processed(lux, luma) /\ user_rx # <<>>) =>
              /\ pending' # None
              /\ Unwrap(pending').brightness = user_rx[Len(user_rx)]
              /\ pending = None =>
                    /\ Unwrap(pending').lux = lux
                    /\ Unwrap(pending').luma = luma
              /\ pending # None =>
                    /\ Unwrap(pending').lux = Unwrap(pending).lux
                    /\ Unwrap(pending').luma = Unwrap(pending).luma]_vars

\* a later user change was recorded on a tick whose lux and luma both differ
\* from the frozen ones
C1_Witness ==
    /\ pending # None
    /\ last.branch = "record"
    /\ last.drained
    /\ last.lux # Unwrap(pending).lux
    /\ last.luma # Unwrap(pending).luma

\* C2 (cooldown): a processed tick with a user change sets pending_cooldown to
\* 15; the next 15 processed ticks without one only decrement it, leaving
\* pending and data.entries alone; learn() runs on the 16th such tick and on no
\* earlier one; a user change in between restarts the count.
C2_Cooldown ==
    /\ [](pending # None => pending_cooldown + quiet_ticks = 15)
    /\ [][\A lux \in LuxVals, luma \in LumaVals :
             Processed(lux, luma) =>
                LET change == user_rx # <<>> \/ initial_brightness # None
                    learns == pending # None /\ pending' = None
                IN  /\ change => pending_cooldown' = 15 /\ quiet_ticks' = 0 /\ pending' # None
                    /\ (~change /\ pending_cooldown > 0) =>
                          /\ pending_cooldown' = pending_cooldown - 1
                          /\ pending' = pending
                          /\ entries' = entries
                    /\ learns <=> (~change /\ pending # None /\ quiet_ticks = 15)
                    /\ ~learns => entries' = entries]_vars

\* learn() has run, 16 ticks after the last user change
C2_Witness ==
    /\ last.branch = "learn"
    /\ pending = None
    /\ pending_cooldown = 0
    /\ entries # <<>>

\* learn() ran in this step; the entries it kept are all but the pushed one
Learns == pending # None /\ pending' = None

AllButLast(es) == {es[i] : i \in 1..(Len(es) - 1)}

Kept == AllButLast(entries')

\* the eight entries test_learn_data_cleanup expects to be deleted
ToBeDeleted ==
    {EntryNew(9, Some(20), 31), EntryNew(9, Some(21), 31), EntryNew(10, Some(19), 29),
     EntryNew(10, Some(20), 29), EntryNew(10, Some(20), 31), EntryNew(10, Some(21), 31),
     EntryNew(11, Some(19), 29), EntryNew(11, Some(20), 29)}

\* the retention table of the comment above test_learn_data_cleanup
Survives(e, p) ==
    CASE e.lux < p.lux /\ LumaLt(e.luma, p.luma) -> TRUE
      [] e.lux < p.lux /\ e.luma = p.luma -> e.brightness <= p.brightness
      [] e.lux < p.lux /\ LumaGt(e.luma, p.luma) -> e.brightness <= p.brightness
      [] e.lux = p.lux /\ LumaLt(e.luma, p.luma) -> e.brightness >= p.brightness
      [] e.lux = p.lux /\ LumaGt(e.luma, p.luma) -> e.brightness <= p.brightness
      [] e.lux > p.lux /\ LumaLt(e.luma, p.luma) -> e.brightness >= p.brightness
      [] e.lux > p.lux /\ e.luma = p.luma -> e.brightness >= p.brightness
      [] e.lux > p.lux /\ LumaGt(e.luma, p.luma) -> TRUE
      [] OTHER -> FALSE

\* C3 (learn retention table): after learn() with pending p, a stored entry e
\* with (e.lux, e.luma) # (p.lux, p.luma) is still stored iff the table of the
\* test's comment keeps it; from the 3x3x3 cube around p = (10, 20, 30) the
\* entries left are the cube minus the eight entries of ToBeDeleted.
C3_RetentionTable ==
    [][Learns =>
          LET p == Unwrap(pending)
          IN  /\ \A i \in 1..Len(entries) :
                    (entries[i].lux # p.lux \/ entries[i].luma # p.luma) =>
                        (entries[i] \in Kept <=> Survives(entries[i], p))
              /\ (entries = Cube /\ p = EntryNew(10, Some(20), 30)) =>
                    Range(entries') = Range(Cube) \ ToBeDeleted]_vars

\* learn() has run on the whole cube with pending (10, 20, 30)
C3_Witness ==
    /\ pending = None
    /\ last.branch = "learn"
    /\ Range(entries) = Range(Cube) \ ToBeDeleted

\* the eviction table as section 4.3.1 of the specification states it
EvictsAsStated(e, p) ==
    \/ e.lux < p.lux /\ LumaLt(e.luma, p.luma)
    \/ e.lux > p.lux /\ LumaGt(e.luma, p.luma)
    \/ e.lux < p.lux /\ ~LumaLt(e.luma, p.luma) /\ e.brightness <= p.brightness
    \/ e.lux = p.lux /\ LumaGt(e.luma, p.luma) /\ e.brightness <= p.brightness
    \/ e.lux >= p.lux /\ LumaLt(e.luma, p.luma) /\ e.brightness >= p.brightness
    \/ e.lux > p.lux /\ e.luma = p.luma /\ e.brightness >= p.brightness
    \/ e.lux = p.lux /\ e.luma = p.luma /\ e.brightness # p.brightness

\* C4 as stated (learn eviction table of section 4.3.1): learn() removes a
\* stored entry iff it falls into a cell of that table; both diagonal corners
\* are removed whatever their brightness.
C4_EvictionTableAsStated ==
    [][Learns =>
          \A i \in 1..Len(entries) :
              entries[i] \notin Kept <=> EvictsAsStated(entries[i], Unwrap(pending))]_vars

\* the eviction table the code implements
EvictsAmended(e, p) ==
    \/ e.lux < p.lux /\ ~LumaLt(e.luma, p.luma) /\ e.brightness > p.brightness
    \/ e.lux = p.lux /\ LumaGt(e.luma, p.luma) /\ e.brightness > p.brightness
    \/ e.lux >= p.lux /\ LumaLt(e.luma, p.luma) /\ e.brightness < p.brightness
    \/ e.lux > p.lux /\ e.luma = p.luma /\ e.brightness < p.brightness
    \/ e.lux = p.lux /\ e.luma = p.luma

\* C4 amended: learn() removes a stored entry iff it is brighter than p in a
\* darker-env/same-or-brighter-screen or same-env/brighter-screen cell, dimmer
\* than p in a same-or-brighter-env/darker-screen or brighter-env/same-screen
\* cell, or has p's lux and luma (whatever its brightness); an entry in a
\* diagonal corner is never removed.
C4_EvictionTableAmended ==
    [][Learns =>
          LET p == Unwrap(pending)
          IN  \A i \in 1..Len(entries) :
                  /\ entries[i] \notin Kept <=> EvictsAmended(entries[i], p)
                  /\ (entries[i].lux < p.lux /\ LumaLt(entries[i].luma, p.luma)) =>
                        entries[i] \in Kept
                  /\ (entries[i].lux > p.lux /\ LumaGt(entries[i].luma, p.luma)) =>
                        entries[i] \in Kept]_vars

\* learn() has run and left both diagonal corners in place, the darker one
\* brighter than the pushed entry and the brighter one dimmer
C4_Witness ==
    /\ pending = None
    /\ last.branch = "learn"
    /\ entries # <<>>
    /\ entries[Len(entries)] = EntryNew(10, Some(20), 30)
    /\ EntryNew(9, Some(19), 31) \in AllButLast(entries)
    /\ EntryNew(11, Some(21), 29) \in AllButLast(entries)

\* C5 as stated (scenario C count): from the 27 entries of the cube and
\* pending (10, 20, 30), one learn() leaves 27 - 8 + 1 = 20 entries.
C5_TwentyEntriesAsStated ==
    [][(Learns /\ entries = Cube /\ Unwrap(pending) = EntryNew(10, Some(20), 30)) =>
          Len(entries') = 20]_vars

\* C5 amended: from the 27 entries of the cube and pending (10, 20, 30), one
\* learn() leaves 27 - 9 + 1 = 19 entries: the eight entries of ToBeDeleted and
\* the stored (10, 20, 30) are removed, and the pending is pushed last.
C5_NineteenEntries ==
    [][(Learns /\ entries = Cube /\ Unwrap(pending) = EntryNew(10, Some(20), 30)) =>
          /\ Len(Cube) = 27
          /\ Len(entries') = 19
          /\ entries'[19] = EntryNew(10, Some(20), 30)
          /\ Range(Cube) \ Kept = ToBeDeleted \cup {EntryNew(10, Some(20), 30)}]_vars

\* the entries after that learn(): 18 kept in their order, then the pending
C5_Witness ==
    /\ pending = None
    /\ last.branch = "learn"
    /\ Len(entries) = 19
    /\ entries = Append(SelectSeq(Cube, LAMBDA e : e \notin ToBeDeleted
                                                  /\ e # EntryNew(10, Some(20), 30)),
                        EntryNew(10, Some(20), 30))

\* some tick of the capturer
AnyTick == \E lux \in LuxVals, luma \in LumaVals : Adjust(lux, luma)

\* C6 (Kalman warm-up): initialized is false before the first process() call
\* and true after it, and the adjust() tick in which it becomes true does not
\* run the learning/prediction step: no prediction is sent, no pending is
\* created, the handshake value is not consumed, user_rx is not drained.
C6_KalmanWarmup ==
    /\ []((phase = "running" /\ last = NoTick) => ~kalman_initialized)
    /\ [][AnyTick => kalman_initialized']_vars
    /\ [][(AnyTick /\ ~kalman_initialized) =>
             /\ prediction_tx' = prediction_tx
             /\ pending' = pending
             /\ initial_brightness' = initial_brightness
             /\ user_rx' = user_rx]_vars

\* C7 (handshake ordering): a Controller exists only after Controller::new has
\* received one value from user_rx; when none arrives in the 2-second window
\* construction ends in the handshake-timeout failure and no Controller
\* exists; before the handshake no tick, pending update or prediction happens.
C7_HandshakeOrdering ==
    /\ [](phase # "running" =>
             /\ ~kalman_initialized
             /\ last = NoTick
             /\ pending = None
             /\ pending_cooldown = 0
             /\ initial_brightness = None
             /\ prediction_tx = <<>>)
    /\ [][(phase # "running" /\ phase' = "running") =>
             /\ phase = "handshake"
             /\ user_rx # <<>>
             /\ user_rx' = Tail(user_rx)]_vars
    /\ [][(phase = "handshake" /\ user_rx = <<>> /\ phase' # phase) =>
             phase' = "fatal_handshake_timeout"]_vars
    /\ [][phase = "fatal_handshake_timeout" => phase' = phase]_vars

\* the handshake was received and a tick has since updated the pending entry
C7_Witness ==
    /\ phase = "running"
    /\ kalman_initialized
    /\ last.branch = "cooldown"
    /\ pending # None

\* C8 (synthetic initial pending): Controller::new keeps the handshake value
\* iff data.entries is empty; the first processed tick consumes it, and when
\* no user change is queued at that tick it creates pending = Entry(lux, luma,
\* handshake value) with pending_cooldown = 15; with non-empty data the value is
\* dropped, and a tick without a queued user change creates no pending.
C8_SyntheticInitialPending ==
    /\ [][(phase = "handshake" /\ phase' = "running") =>
             initial_brightness' =
                 (IF entries = <<>> THEN Some(user_rx[1]) ELSE None)]_vars
    /\ [](initial_brightness # None => (last = NoTick /\ pending = None /\ entries = <<>>))
    /\ [][\A lux \in LuxVals, luma \in LumaVals :
             Processed(lux, luma) =>
                /\ initial_brightness' = None
                /\ (initial_brightness # None /\ user_rx = <<>>) =>
                      /\ pending' = Some(EntryNew(lux, luma, Unwrap(initial_brightness)))
                      /\ pending_cooldown' = 15
                /\ (initial_brightness = None /\ user_rx = <<>> /\ pending = None) =>
                      pending' = None]_vars

\* the first processed tick has made a pending entry out of the handshake value
C8_Witness ==
    /\ last.branch = "record"
    /\ ~last.drained
    /\ pending = Some(EntryNew(last.lux, last.luma, 2))
    /\ pending_cooldown = 15
    /\ initial_brightness = None

\* C9 (scenario A, cold start): with empty data, handshake 50, no further user
\* change and every processed tick at lux 100, luma Some(30): the first
\* processed tick creates the pending, 15 cooldown ticks follow, the next tick
\* learns, leaving data.entries = [Entry(100, Some(30), 50)]; no prediction is
\* sent up to and including the learn tick; the tick after it sends exactly
\* one prediction, 50.
C9_ScenarioA ==
    /\ [](last.branch \in {"none", "record", "cooldown"} =>
             entries = <<>> /\ prediction_tx = <<>>)
    /\ [](last.branch = "record" =>
             pending = Some(EntryNew(100, Some(30), 50)) /\ pending_cooldown = 15 /\ ~last.drained)
    /\ [](last.branch = "cooldown" =>
             /\ pending = Some(EntryNew(100, Some(30), 50))
             /\ quiet_ticks \in 1..15
             /\ pending_cooldown = 15 - quiet_ticks)
    /\ [](last.branch = "learn" =>
             pending = None /\ entries = <<EntryNew(100, Some(30), 50)>> /\ prediction_tx = <<>>)
    /\ [](last.branch = "predict" =>
             /\ entries = <<EntryNew(100, Some(30), 50)>>
             /\ prediction_tx # <<>>
             /\ \A i \in 1..Len(prediction_tx) : prediction_tx[i] = 50)
    /\ [][(Adjust(100, Some(30)) /\ last.branch = "none") =>
             last'.branch = "record"]_vars
    /\ [][(Adjust(100, Some(30)) /\ last'.branch = "learn") =>
             last.branch = "cooldown" /\ quiet_ticks = 15]_vars
    /\ [][(Adjust(100, Some(30)) /\ last.branch = "learn") =>
             prediction_tx' = <<50>>]_vars
    /\ [][(Adjust(100, Some(30)) /\ last.branch = "cooldown" /\ quiet_ticks = 15) =>
             last'.branch = "learn"]_vars

\* the tick after the learn tick has sent its prediction
C9_Witness ==
    /\ last.branch = "predict"
    /\ entries = <<EntryNew(100, Some(30), 50)>>
    /\ prediction_tx = <<50>>
    /\ pending = None

Predicted ==
    /\ last'.branch = "predict"
    /\ pending = None
    /\ Processed(last'.lux, last'.luma)
    /\ last' # last \/ prediction_tx' # prediction_tx

\* C11 (predict with no data): a tick that gets to predict() with empty
\* data.entries sends nothing on prediction_tx and the thread goes on running,
\* whatever lux and luma the tick carries.
C11_PredictNoData ==
    [][(Predicted /\ entries = <<>>) =>
          /\ prediction_tx' = prediction_tx
          /\ phase' = "running"
          /\ entries' = <<>>]_vars

\* predict() has run on empty data
C11_Witness ==
    /\ phase = "running"
    /\ last.branch = "predict"
    /\ entries = <<>>
    /\ pending = None
    /\ prediction_tx = <<>>

\* C12 (predict with one entry): a tick that gets to predict() with exactly one
\* entry sends exactly one prediction, that entry's brightness, whatever lux
\* and luma the tick carries, also when they are the entry's own.
C12_PredictOneEntry ==
    [][(Predicted /\ Len(entries) = 1) =>
          /\ prediction_tx' = Append(prediction_tx, entries[1].brightness)
          /\ phase' = "running"]_vars

\* predict() has run on one entry with the entry's own lux and luma and has
\* sent its brightness
C12_Witness ==
    /\ last.branch = "predict"
    /\ Len(entries) = 1
    /\ ExactHit(entries, last.lux, last.luma)
    /\ entries[1].brightness > 0
    /\ prediction_tx = <<entries[1].brightness>>

\* C13 (exact hit): a tick that gets to predict() with some entry at distance
\* 0 of (lux, luma), an absent luma counting as 0, sends the brightness of an
\* entry at distance 0.
C13_ExactHit ==
    [][(Predicted /\ ExactHit(entries, last'.lux, last'.luma)) =>
          \E i \in 1..Len(entries) :
              /\ ExactHit(<<entries[i]>>, last'.lux, last'.luma)
              /\ prediction_tx' = Append(prediction_tx, entries[i].brightness)]_vars

\* whole-number square root
RECURSIVE ISqrtFrom(_, _)
ISqrtFrom(n, r) == IF (r + 1) * (r + 1) > n THEN r ELSE ISqrtFrom(n, r + 1)

\* the distances of the entries to (lux, luma) where they are all whole
\* numbers, else the empty sequence
WholeDistances(es, lux, luma) ==
    LET sq == [i \in 1..Len(es) |->
                 (lux - es[i].lux) * (lux - es[i].lux)
                   + (UnwrapOr(luma, 0) - UnwrapOr(es[i].luma, 0))
                       * (UnwrapOr(luma, 0) - UnwrapOr(es[i].luma, 0))]
        ds == [i \in 1..Len(es) |-> ISqrtFrom(sq[i], 0)]
    IN  IF \A i \in 1..Len(es) : ds[i] * ds[i] = sq[i] THEN ds ELSE <<>>

RECURSIVE WholeProductExcept(_, _, _)
WholeProductExcept(ds, i, k) ==
    IF k > Len(ds) THEN 1
    ELSE (IF k = i THEN 1 ELSE ds[k]) * WholeProductExcept(ds, i, k + 1)

RECURSIVE WholeSum(_, _)
WholeSum(xs, k) == IF k > Len(xs) THEN 0 ELSE xs[k] + WholeSum(xs, k + 1)

\* sum_i P_i, for whole distances ds
WholeS(ds) == WholeSum([i \in 1..Len(ds) |-> WholeProductExcept(ds, i, 1)], 1)

\* sum_i(brightness_i * P_i) / S truncated, for whole distances ds with S > 0
TruncatedMean(es, ds) ==
    WholeSum([i \in 1..Len(ds) |-> es[i].brightness * WholeProductExcept(ds, i, 1)], 1)
        \div WholeS(ds)

\* C14 (predict law): a tick that gets to predict() with non-empty entries
\* sends exactly one value; where the distances are whole numbers and S > 0 it
\* is sum_i(brightness_i * P_i) / S truncated; for the entries (5,10,15),
\* (10,20,30), (100,100,100) at lux 50, luma 50 it is 44.
C14_PredictLaw ==
    [][(Predicted /\ entries # <<>>) =>
          LET ds == WholeDistances(entries, last'.lux, last'.luma)
          IN  /\ Len(prediction_tx') = Len(prediction_tx) + 1
              /\ (ds # <<>> /\ WholeS(ds) > 0) =>
                    Last(prediction_tx') = TruncatedMean(entries, ds)
              /\ (/\ entries = <<EntryNew(5, Some(10), 15), EntryNew(10, Some(20), 30),
                                  EntryNew(100, Some(100), 100)>>
                  /\ last'.lux = 50
                  /\ last'.luma = Some(50)) =>
                    Last(prediction_tx') = 44]_vars

\* C15 (webcam ALS cache): whatever the sampler has sent and whenever, a
\* get_raw() call returns the value sent last, or the default 100 when none was
\* ever sent; it leaves the channel empty and the cache at the value returned;
\* a get_raw() call that follows another with no send in between returns the
\* same value.
C15_WebcamCache ==
    /\ [][GetRaw =>
             /\ webcam_last'.value = UnwrapOr(webcam_sent, 100)
             /\ webcam_rx' = <<>>
             /\ als_lux' = webcam_last'.value]_vars
    /\ [][(GetRaw /\ webcam_last.op = "get") =>
             webcam_last'.value = webcam_last.value]_vars
    /\ []((webcam_last.op = "get" /\ webcam_sent = None) => webcam_last.value = 100)

\* three values were sent and get_raw() has returned the last of them, 44
C15_Witness ==
    /\ webcam_last = [op |-> "get", value |-> 44]
    /\ webcam_kalman = 3
    /\ webcam_sent = Some(44)
    /\ als_lux = 44
    /\ webcam_rx = <<>>

\* some step of the webcam sampler whose frame was captured
StepWithFrame == \E lux \in WebcamLuxVals : WebcamStep(FrameOk(lux))

\* C20 (webcam frame failure): a sampler step whose frame capture fails sends
\* nothing and leaves the sampler's Kalman state as it was; the process goes
\* on and the sampler can step again, with or without a frame; a step whose
\* frame is captured sends exactly one value.
C20_FrameFailure ==
    /\ [][WebcamStep(FrameErr) =>
             /\ webcam_rx' = webcam_rx
             /\ webcam_sent' = webcam_sent
             /\ webcam_kalman' = webcam_kalman
             /\ als_lux' = als_lux
             /\ exit_code' = None]_vars
    /\ [](webcam_last.op = "frame_error" =>
             /\ Alive
             /\ ENABLED WebcamStep(FrameErr)
             /\ (webcam_kalman < MaxMeasurements /\ Len(webcam_rx) < MaxWebcamQueue) =>
                   ENABLED StepWithFrame)
    /\ [][StepWithFrame =>
             /\ Len(webcam_rx') = Len(webcam_rx) + 1
             /\ webcam_sent' = Some(Last(webcam_rx'))
             /\ SubSeq(webcam_rx', 1, Len(webcam_rx)) = webcam_rx
             /\ webcam_kalman' = webcam_kalman + 1]_vars

\* a step whose frame capture failed has followed a step that sent a value:
\* the one value is still queued and the Kalman filter still has one measurement
C20_Witness ==
    /\ Alive
    /\ webcam_last.op = "frame_error"
    /\ webcam_kalman = 1
    /\ Len(webcam_rx) = 1
    /\ webcam_sent = Some(webcam_rx[1])

\* C16 (profile smoothing): with ascending thresholds T, the empty list
\* included, smoothen(r, T) is the number of thresholds of T that are <= r: 0
\* when r is below the first threshold and the length of T when r is at or
\* above the last.
C16_Smoothen ==
    [](smoothed # None =>
          LET r == Unwrap(smoothed).raw
              profile == Unwrap(smoothed).profile
          IN  /\ profile = Cardinality({i \in 1..Len(thresholds) : thresholds[i] <= r})
              /\ (thresholds = <<>> \/ r < thresholds[1]) => profile = 0
              /\ (thresholds # <<>> /\ r >= Last(thresholds)) => profile = Len(thresholds))

\* smoothen() has put a raw value that equals a threshold above it, between two
\* different thresholds
C16_Witness ==
    /\ smoothed # None
    /\ Len(thresholds) = 2
    /\ thresholds[1] < thresholds[2]
    /\ Unwrap(smoothed).raw = thresholds[1]
    /\ Unwrap(smoothed).profile = 1

\* C17 (data lifecycle): once the Controller is constructed data.entries
\* changes only in a tick that runs learn(); a tick that records a user change,
\* decrements the cooldown or predicts leaves entries and file alone. For a
\* stateful Controller learn() saves the whole Data, and while it runs the
\* entries in its file are data.entries (none for a missing file). A
\* Controller that is not stateful starts with empty Data whatever its file
\* holds, and its file never changes.
C17_DataLifecycle ==
    /\ [][(phase = "running" /\ phase' = "running" /\ entries' # entries) =>
             /\ last'.branch = "learn"
             /\ Learns
             /\ entries' = LearnEntries(entries, Unwrap(pending))]_vars
    /\ [][(AnyTick /\ last'.branch # "learn") => (entries' = entries /\ file' = file)]_vars
    /\ [][(Learns /\ stateful /\ phase' = "running") => file' = Valid(entries')]_vars
    /\ []((stateful /\ phase = "running") =>
             (file.kind \in {"missing", "valid"} /\ file.entries = entries))
    /\ [][~stateful => file' = file]_vars
    /\ [][(~stateful /\ phase = "load" /\ phase' # "load") =>
             (phase' = "handshake" /\ entries' = <<>>)]_vars

\* a stateful Controller that started without a file has learned an entry and
\* saved it
C17_Witness ==
    /\ stateful
    /\ phase = "running"
    /\ last.branch = "learn"
    /\ entries # <<>>
    /\ file = Valid(entries)

\* C18 (fatal errors stop everything): a panic in any thread (corrupt data
\* file, handshake timeout, ALS read failure, failed save, a brightness
\* device that cannot be opened, a webcam that cannot be set up) ends the
\* whole process with exit code 1:
\* the process has exited exactly when a thread has panicked, the exit code
\* is not zero, and no thread takes another step after it.
C18_FatalStopsEverything ==
    /\ [](Panicked <=> ~Alive)
    /\ [](~Alive => Unwrap(exit_code) # 0)
    /\ [][Alive]_vars
    /\ [][Panicked' => (exit_code' = Some(1) /\ user_rx' = <<>> /\ prediction_tx' = <<>>)]_vars

\* a running predictor panicked on a failed save and the process exited
C18_Witness ==
    /\ phase = "fatal_save"
    /\ exit_code = Some(1)

IsPrefix(s, t) == Len(s) <= Len(t) /\ \A i \in 1..Len(s) : s[i] = t[i]

C21_BranchExclusivity ==
    [][\A lux \in LuxVals, luma \in LumaVals :
          Processed(lux, luma) =>
             LET change == user_rx # <<>> \/ initial_brightness # None
                 sends == prediction_tx' # prediction_tx
             IN  /\ last'.branch = (IF change THEN "record"
                                    ELSE IF pending_cooldown > 0 THEN "cooldown"
                                    ELSE IF pending # None THEN "learn"
                                    ELSE "predict")
                 /\ last'.branch = "record" =>
                       /\ pending' # None /\ pending_cooldown' = 15
                       /\ entries' = entries /\ ~sends
                 /\ last'.branch = "cooldown" =>
                       /\ pending_cooldown' = pending_cooldown - 1
                       /\ pending' = pending /\ entries' = entries /\ ~sends
                 /\ last'.branch = "learn" =>
                       /\ pending' = None /\ Last(entries') = Unwrap(pending)
                       /\ pending_cooldown' = pending_cooldown /\ ~sends
                 /\ last'.branch = "predict" =>
                       /\ pending' = pending /\ pending_cooldown' = pending_cooldown
                       /\ entries' = entries
                       /\ sends <=> entries # <<>>
                 /\ sends => (~change /\ pending_cooldown = 0 /\ pending = None
                                /\ entries # <<>>)
                 /\ pending # None => ~sends]_vars

\* a prediction was sent by a tick that found two learned entries and nothing
\* pending
C21_Witness ==
    /\ last.branch = "predict"
    /\ prediction_tx # <<>>
    /\ pending = None
    /\ pending_cooldown = 0
    /\ Len(entries) = 2

SameConditions(e, p) == e.lux = p.lux /\ e.luma = p.luma

\* C22 (duplicates collapse on re-learn): right after learn() with pending p
\* the last of data.entries is p and no other entry has p's lux and luma,
\* whatever brightness the earlier entries with that lux and luma had and
\* however many there were; pending is None and pending_cooldown is 0.
C22_DuplicatesCollapse ==
    [][Learns =>
          LET p == Unwrap(pending)
          IN  /\ entries' # <<>>
              /\ Last(entries') = p
              /\ \A i \in 1..(Len(entries') - 1) : ~SameConditions(entries'[i], p)
              /\ Cardinality({i \in 1..Len(entries') : SameConditions(entries'[i], p)}) = 1
              /\ Len(entries') =
                    1 + Cardinality({i \in 1..Len(entries) : Retain(entries[i], p)})
              /\ pending' = None
              /\ pending_cooldown' = 0]_vars

\* learn() with pending (10, Some(20), 30) has run on entries that all had its
\* lux and luma: they are gone, whatever their brightness, and the pending is
\* the one entry
C22_Witness ==
    /\ last.branch = "learn"
    /\ pending = None
    /\ pending_cooldown = 0
    /\ entries = <<EntryNew(10, Some(20), 30)>>
    /\ file = Valid(entries)

\* e1 is in an environment no brighter and on a screen no darker than e2, and
\* they differ in one of the two
NoBrighterNeeded(e1, e2) ==
    /\ e1.lux <= e2.lux
    /\ ~LumaLt(e1.luma, e2.luma)
    /\ ~SameConditions(e1, e2)

\* C23 (pairwise monotonicity): with data that started empty, no two stored
\* entries have the same lux and luma, and of two stored entries the one in the
\* environment no brighter and on the screen no darker has the brightness no
\* higher.
C23_PairwiseMonotone ==
    \A i, j \in 1..Len(entries) :
        i # j =>
            /\ ~SameConditions(entries[i], entries[j])
            /\ NoBrighterNeeded(entries[i], entries[j]) =>
                  entries[i].brightness <= entries[j].brightness

\* learn() has left two entries of which one had to be no brighter than the
\* other, and is dimmer
C23_Witness ==
    /\ last.branch = "learn"
    /\ Len(entries) = 2
    /\ NoBrighterNeeded(entries[2], entries[1])
    /\ entries[2].brightness < entries[1].brightness

\* C24 (pending/cooldown coupling): pending_cooldown is always within 0..15
\* and is above 0 only while a pending entry exists; a processed tick runs
\* learn() only when it finds a pending entry and pending_cooldown = 0, so
\* the `expect("No pending entry to learn")` of learn() never fails.
C24_PendingCooldownCoupling ==
    /\ [](pending_cooldown \in 0..PENDING_COOLDOWN_RESET)
    /\ [](pending_cooldown > 0 => pending # None)
    /\ [][\A lux \in LuxVals, luma \in LumaVals :
             (Processed(lux, luma) /\ (last'.branch = "learn" \/ entries' # entries)) =>
                /\ pending # None
                /\ pending_cooldown = 0
                /\ user_rx = <<>>]_vars

\* the cooldown has run out and the pending entry waits for the tick that
\* learns it
C24_Witness ==
    /\ phase = "running"
    /\ pending # None
    /\ pending_cooldown = 0
    /\ last.branch = "cooldown"
    /\ quiet_ticks = PENDING_COOLDOWN_RESET

\* C26 (the handshake value is single-use and loses to a user change): the
\* first processed tick takes initial_brightness, which is None in every
\* state after it; when user values are queued at that tick the pending is
\* Entry(lux, luma, last queued value); the brightness of a pending entry is
\* the handshake value only when it was created or updated with user_rx empty
\* and initial_brightness still there, and a learned entry is the pending.
C26_HandshakeSingleUse ==
    /\ [](last # NoTick => initial_brightness = None)
    /\ [][(phase = "running" /\ initial_brightness = None) =>
             initial_brightness' = None]_vars
    /\ [][\A lux \in LuxVals, luma \in LumaVals :
             Processed(lux, luma) =>
                /\ initial_brightness' = None
                /\ (initial_brightness # None /\ user_rx # <<>>) =>
                      /\ pending' = Some(EntryNew(lux, luma, Last(user_rx)))
                      /\ last'.drained
                /\ (pending' # pending /\ pending' # None) =>
                      Unwrap(pending').brightness =
                          (IF user_rx # <<>> THEN Last(user_rx)
                           ELSE Unwrap(initial_brightness))
                /\ Learns => Last(entries') = Unwrap(pending)]_vars

\* the first processed tick found a user change queued behind the handshake
\* value and made the pending entry out of the user change
C26_Witness ==
    /\ phase = "running"
    /\ last.branch = "record"
    /\ last.drained
    /\ initial_brightness = None
    /\ entries = <<>>
    /\ user_rx = <<>>
    /\ quiet_ticks = 0
    /\ pending = Some(EntryNew(last.lux, last.luma, 2))

\* C25 (user changes are eventually learned): with ticks going on, every value
\* queued on user_rx is drained, and a pending entry is learned unless another
\* user change arrives first. Counted in processed ticks: the tick that drains
\* a change keeps its last value, each of the next 15 ticks without a change
\* only counts, the 16th pushes Entry(frozen lux, frozen luma, last value) and
\* clears pending, and the tick after that one sends a prediction.
C25_EventuallyLearned ==
    /\ (user_rx # <<>>) ~> (user_rx = <<>> /\ last.drained)
    /\ (pending # None) ~> (pending = None \/ user_rx # <<>>)
    /\ [][\A lux \in LuxVals, luma \in LumaVals :
             Processed(lux, luma) =>
                LET change == user_rx # <<>> \/ initial_brightness # None
                IN  /\ user_rx' = <<>>
                    /\ user_rx # <<>> =>
                          /\ quiet_ticks' = 0
                          /\ Unwrap(pending').brightness = Last(user_rx)
                    /\ (~change /\ pending # None /\ quiet_ticks < 15) =>
                          /\ quiet_ticks' = quiet_ticks + 1
                          /\ pending' = pending
                          /\ entries' = entries
                    /\ (~change /\ pending # None /\ quiet_ticks = 15) =>
                          /\ pending' = None
                          /\ entries' # <<>>
                          /\ Last(entries') = Unwrap(pending)
                          /\ last'.branch = "learn"
                    /\ (~change /\ last.branch = "learn") =>
                          /\ last'.branch = "predict"
                          /\ Len(prediction_tx') = Len(prediction_tx) + 1]_vars

\* a user change was learned beside the entry the file had, and the tick after
\* the learn tick sent a prediction
C25_Witness ==
    /\ last.branch = "predict"
    /\ Len(prediction_tx) = 1
    /\ Len(entries) = 2
    /\ entries[1] = SeedEntries[1]
    /\ file = Valid(entries)
    /\ pending = None
    /\ user_rx = <<>>

=============================================================================
